---- MODULE Spec2Model ----
(***************************************************************************)
(* MemoryEventStore of ralfw/ccceventstores: an append-only in-memory      *)
(* event stream with queries, conditional append, write-through            *)
(* persistence and subscriptions.  Every await of the TypeScript source is *)
(* a point where another caller may run; the code between two awaits is    *)
(* one action.                                                             *)
(***************************************************************************)
EXTENDS Integers, Sequences, FiniteSets, TLC

\* ---------------------------------------------------------------- bounds
MaxLog == 3
MaxBatch == 2
MaxOps == 4

Procs == {1, 2}
Handlers == {"h1"}
EventTypes == {"e1", "e2"}
Payloads == {[k |-> 1]}

\* ------------------------------------------------------------ data shapes
Undefined == [undefined |-> TRUE]
NoFile == [enoent |-> TRUE]

Events == [eventType : EventTypes, payload : Payloads]

RECURSIVE SeqsUpTo(_, _)
SeqsUpTo(S, n) ==
    IF n = 0 THEN {<<>>}
    ELSE LET shorter == SeqsUpTo(S, n - 1)
         IN  shorter \cup {Append(s, e) : s \in {t \in shorter : Len(t) = n - 1}, e \in S}

Batches == SeqsUpTo(Events, MaxBatch)

\* ------------------------------------------------------- filter/index.ts
\* createFilter without the spread of payloadPredicates.
createFilterNoPredicates(eventTypes, payloadPredicates) ==
    [eventTypes |-> eventTypes]

\* The optional parameter payloadPredicates is a set: {} when it is left
\* out, {predicates} when it is passed.
createFilter(eventTypes, payloadPredicates) ==
    IF payloadPredicates = {}
    THEN [eventTypes |-> eventTypes]
    ELSE [eventTypes |-> eventTypes,
          payloadPredicates |-> CHOOSE predicates \in payloadPredicates : TRUE]

createQuery(filters) == [filters |-> filters]

\* The selections the callers of the model use: no argument, a bare filter
\* and a query of one filter with a payload pattern.
QueryInputs ==
    { Undefined,
      createFilter({"e1"}, {}),
      createQuery(<<createFilter({"e2"}, {<<[k |-> 1]>>})>>) }

\* ------------------------------------------------ queryprocessor.ts (spec)
PredicateMatches(payload, predicate) ==
    \A key \in DOMAIN predicate :
        key \in DOMAIN payload /\ payload[key] = predicate[key]

MatchesFilter(record, filter) ==
    /\ \/ filter.eventTypes = {}
       \/ record.eventType \in filter.eventTypes
    /\ \/ "payloadPredicates" \notin DOMAIN filter
       \/ filter.payloadPredicates = <<>>
       \/ \E i \in 1..Len(filter.payloadPredicates) :
              PredicateMatches(record.payload, filter.payloadPredicates[i])

MatchesQuery(record, query) ==
    \/ query = Undefined
    \/ \E i \in 1..Len(query.filters) : MatchesFilter(record, query.filters[i])

RECURSIVE processQuery(_, _)
processQuery(records, query) ==
    IF records = <<>> THEN <<>>
    ELSE LET rest == processQuery(Tail(records), query)
         IN  IF MatchesQuery(Head(records), query) THEN <<Head(records)>> \o rest ELSE rest

\* ------------------------------------------------- readwritelock.ts (spec)
\* readers: active-reader count; writerActive: the writer flag; queue: the
\* pending requests in arrival order; granted: the callers whose acquire
\* has been resolved and who have not released yet.
NewLock == [readers |-> 0, writerActive |-> FALSE, queue |-> <<>>, granted |-> {}]

HasPendingWrite(l) == \E i \in 1..Len(l.queue) : l.queue[i].kind = "write"

RECURSIVE processQueue(_)
processQueue(l) ==
    IF l.queue = <<>> \/ l.writerActive THEN l
    ELSE LET head == Head(l.queue)
         IN  IF head.kind = "read"
             THEN processQueue([l EXCEPT !.readers = @ + 1,
                                         !.granted = @ \cup {head.proc},
                                         !.queue = Tail(@)])
             ELSE IF l.readers = 0
                  THEN [l EXCEPT !.writerActive = TRUE,
                                 !.granted = @ \cup {head.proc},
                                 !.queue = Tail(@)]
                  ELSE l

\* acquireRead admitting a reader whenever no writer is active, pending
\* write requests or not.
acquireReadBarging(l, p) ==
    IF ~l.writerActive
    THEN [l EXCEPT !.readers = @ + 1, !.granted = @ \cup {p}]
    ELSE [l EXCEPT !.queue = Append(@, [kind |-> "read", proc |-> p])]

acquireRead(l, p) ==
    IF ~l.writerActive /\ ~HasPendingWrite(l)
    THEN [l EXCEPT !.readers = @ + 1, !.granted = @ \cup {p}]
    ELSE [l EXCEPT !.queue = Append(@, [kind |-> "read", proc |-> p])]

releaseRead(l, p) ==
    LET l1 == [l EXCEPT !.readers = @ - 1, !.granted = @ \ {p}]
    IN  IF l1.readers = 0 THEN processQueue(l1) ELSE l1

acquireWrite(l, p) ==
    IF ~l.writerActive /\ l.readers = 0 /\ l.queue = <<>>
    THEN [l EXCEPT !.writerActive = TRUE, !.granted = @ \cup {p}]
    ELSE [l EXCEPT !.queue = Append(@, [kind |-> "write", proc |-> p])]

\* releaseWrite handing the lock to the oldest pending write request, past
\* the read requests that arrived before it.
releaseWriteWritersFirst(l, p) ==
    LET l1 == [l EXCEPT !.writerActive = FALSE, !.granted = @ \ {p}]
    IN  IF HasPendingWrite(l1)
        THEN LET i == CHOOSE j \in 1..Len(l1.queue) :
                          /\ l1.queue[j].kind = "write"
                          /\ \A k \in 1..(j - 1) : l1.queue[k].kind = "read"
             IN  [l1 EXCEPT !.writerActive = TRUE,
                            !.granted = @ \cup {l1.queue[i].proc},
                            !.queue = SubSeq(@, 1, i - 1) \o SubSeq(@, i + 1, Len(@))]
        ELSE processQueue(l1)

releaseWrite(l, p) ==
    processQueue([l EXCEPT !.writerActive = FALSE, !.granted = @ \ {p}])

\* -------------------------------------------------------- eventstream.ts
\* EventStream.append with `this.lastSequenceNumber++` for the pre-increment.
NewRecordsPostIncrement(events, last) ==
    [i \in 1..Len(events) |->
        [sequenceNumber |-> last + i - 1,
         eventType |-> events[i].eventType,
         payload |-> events[i].payload]]

\* EventStream.append taking the events from the end of the input.
NewRecordsReversed(events, last) ==
    [i \in 1..Len(events) |->
        [sequenceNumber |-> last + i,
         eventType |-> events[Len(events) + 1 - i].eventType,
         payload |-> events[Len(events) + 1 - i].payload]]

\* The records EventStream.append creates for events, counting on from last.
NewRecords(events, last) ==
    [i \in 1..Len(events) |->
        [sequenceNumber |-> last + i,
         eventType |-> events[i].eventType,
         payload |-> events[i].payload]]

serialize(records, last) == [events |-> records, lastSequenceNumber |-> last]

\* ------------------------------------------------- the persisted text
\* Text is a sequence of characters.  A JavaScript value is null, a boolean,
\* a number, a string (its characters), an array, or an object (its own
\* properties in insertion order); a Date is its time value in milliseconds.
Digit == <<"0", "1", "2", "3", "4", "5", "6", "7", "8", "9">>

IsDigit(c) == \E d \in 1..Len(Digit) : Digit[d] = c

DigitValue(c) == (CHOOSE d \in 1..Len(Digit) : Digit[d] = c) - 1

RECURSIVE digits(_)
digits(n) ==
    IF n < Len(Digit) THEN <<Digit[n + 1]>>
    ELSE digits(n \div Len(Digit)) \o <<Digit[(n % Len(Digit)) + 1]>>

\* Number to text, as in a template literal and in JSON.stringify.
numberToString(n) == IF n < 0 THEN <<"-">> \o digits(0 - n) ELSE digits(n)

RECURSIVE join(_, _)
join(texts, separator) ==
    IF texts = <<>> THEN <<>>
    ELSE IF Len(texts) = 1 THEN texts[1]
    ELSE texts[1] \o separator \o join(Tail(texts), separator)

escape(c) ==
    IF c = "\"" THEN <<"\\", "\"">>
    ELSE IF c = "\\" THEN <<"\\", "\\">>
    ELSE IF c = "\n" THEN <<"\\", "n">>
    ELSE <<c>>

RECURSIVE escaped(_)
escaped(chars) ==
    IF chars = <<>> THEN <<>> ELSE escape(Head(chars)) \o escaped(Tail(chars))

\* JSON.stringify of a string.
quote(chars) == <<"\"">> \o escaped(chars) \o <<"\"">>

\* JSON.stringify(value).
RECURSIVE stringify(_)
stringify(value) ==
    IF "null" \in DOMAIN value THEN <<"n", "u", "l", "l">>
    ELSE IF "boolean" \in DOMAIN value
    THEN (IF value.boolean THEN <<"t", "r", "u", "e">> ELSE <<"f", "a", "l", "s", "e">>)
    ELSE IF "number" \in DOMAIN value THEN numberToString(value.number)
    ELSE IF "string" \in DOMAIN value THEN quote(value.string)
    ELSE IF "array" \in DOMAIN value
    THEN <<"[">>
         \o join([i \in 1..Len(value.array) |-> stringify(value.array[i])], <<",">>)
         \o <<"]">>
    ELSE <<"{">>
         \o join([i \in 1..Len(value.object) |->
                     quote(value.object[i].key) \o <<":">>
                         \o stringify(value.object[i].value)], <<",">>)
         \o <<"}">>

\* The errors JSON.parse and property access throw.
SyntaxError == [error |-> "SyntaxError"]
TypeError == [error |-> "TypeError"]

Failed(result) == "error" \in DOMAIN result

Whitespace == {" ", "\n", "\t", "\r"}

RECURSIVE skip(_)
skip(text) ==
    IF text # <<>> /\ Head(text) \in Whitespace THEN skip(Tail(text)) ELSE text

StartsWith(text, word) ==
    Len(text) >= Len(word) /\ SubSeq(text, 1, Len(word)) = word

Rest(text, n) == SubSeq(text, n + 1, Len(text))

\* The characters of a string literal after its opening quote.
RECURSIVE parseString(_, _)
parseString(text, chars) ==
    IF text = <<>> THEN SyntaxError
    ELSE IF Head(text) = "\"" THEN [value |-> [string |-> chars], rest |-> Tail(text)]
    ELSE IF Head(text) = "\n" THEN SyntaxError
    ELSE IF Head(text) = "\\"
    THEN IF Len(text) < 2 THEN SyntaxError
         ELSE IF text[2] = "n" THEN parseString(Rest(text, 2), Append(chars, "\n"))
         ELSE IF text[2] \in {"\"", "\\", "/"}
         THEN parseString(Rest(text, 2), Append(chars, text[2]))
         ELSE SyntaxError
    ELSE parseString(Tail(text), Append(chars, Head(text)))

\* The digits of a number literal, folded into n.
RECURSIVE parseDigits(_, _)
parseDigits(text, n) ==
    IF text # <<>> /\ IsDigit(Head(text))
    THEN parseDigits(Tail(text), n * Len(Digit) + DigitValue(Head(text)))
    ELSE [value |-> [number |-> n], rest |-> text]

parseNumber(text) ==
    IF Head(text) = "-"
    THEN IF Len(text) >= 2 /\ IsDigit(text[2])
         THEN LET r == parseDigits(Tail(text), 0)
              IN  [value |-> [number |-> 0 - r.value.number], rest |-> r.rest]
         ELSE SyntaxError
    ELSE parseDigits(text, 0)

RECURSIVE parseValue(_), parseElements(_, _), parseMembers(_, _)

\* One JSON value at the start of the text, and the text after it.
parseValue(text) ==
    LET t == skip(text)
    IN  IF t = <<>> THEN SyntaxError
        ELSE IF Head(t) = "{" THEN parseMembers(Tail(t), <<>>)
        ELSE IF Head(t) = "[" THEN parseElements(Tail(t), <<>>)
        ELSE IF Head(t) = "\"" THEN parseString(Tail(t), <<>>)
        ELSE IF Head(t) = "-" \/ IsDigit(Head(t)) THEN parseNumber(t)
        ELSE IF StartsWith(t, <<"n", "u", "l", "l">>)
        THEN [value |-> [null |-> TRUE], rest |-> Rest(t, 4)]
        ELSE IF StartsWith(t, <<"t", "r", "u", "e">>)
        THEN [value |-> [boolean |-> TRUE], rest |-> Rest(t, 4)]
        ELSE IF StartsWith(t, <<"f", "a", "l", "s", "e">>)
        THEN [value |-> [boolean |-> FALSE], rest |-> Rest(t, 5)]
        ELSE SyntaxError

\* The elements of an array after "[" or after a comma.
parseElements(text, elements) ==
    LET t == skip(text)
    IN  IF t = <<>> THEN SyntaxError
        ELSE IF Head(t) = "]" /\ elements = <<>>
        THEN [value |-> [array |-> elements], rest |-> Tail(t)]
        ELSE LET r == parseValue(t)
             IN  IF Failed(r) THEN r
                 ELSE LET u == skip(r.rest)
                          all == Append(elements, r.value)
                      IN  IF u = <<>> THEN SyntaxError
                          ELSE IF Head(u) = "," THEN parseElements(Tail(u), all)
                          ELSE IF Head(u) = "]"
                          THEN [value |-> [array |-> all], rest |-> Tail(u)]
                          ELSE SyntaxError

\* The members of an object after "{" or after a comma.
parseMembers(text, members) ==
    LET t == skip(text)
    IN  IF t = <<>> THEN SyntaxError
        ELSE IF Head(t) = "}" /\ members = <<>>
        THEN [value |-> [object |-> members], rest |-> Tail(t)]
        ELSE IF Head(t) # "\"" THEN SyntaxError
        ELSE LET k == parseString(Tail(t), <<>>)
             IN  IF Failed(k) THEN k
                 ELSE LET c == skip(k.rest)
                      IN  IF c = <<>> \/ Head(c) # ":" THEN SyntaxError
                          ELSE LET r == parseValue(Tail(c))
                               IN  IF Failed(r) THEN r
                                   ELSE LET u == skip(r.rest)
                                            all == Append(members,
                                                      [key |-> k.value.string,
                                                       value |-> r.value])
                                        IN  IF u = <<>> THEN SyntaxError
                                            ELSE IF Head(u) = ","
                                            THEN parseMembers(Tail(u), all)
                                            ELSE IF Head(u) = "}"
                                            THEN [value |-> [object |-> all],
                                                  rest |-> Tail(u)]
                                            ELSE SyntaxError

\* JSON.parse(text): one value and nothing but whitespace after it.
parse(text) ==
    LET r == parseValue(text)
    IN  IF Failed(r) THEN r
        ELSE IF skip(r.rest) # <<>> THEN SyntaxError
        ELSE r.value

\* object[key]: the value of the property, or undefined.
Get(object, key) ==
    IF "object" \in DOMAIN object
          /\ \E i \in 1..Len(object.object) : object.object[i].key = key
    THEN object.object[CHOOSE i \in 1..Len(object.object) :
                           /\ object.object[i].key = key
                           /\ \A j \in (i + 1)..Len(object.object) :
                                 object.object[j].key # key].value
    ELSE Undefined

\* ------------------------------------------- eventstream.ts, persisted form
\* Date.toISOString for the time values of the first minute after the epoch.
toISOString(date) ==
    LET seconds == date.time \div 1000
        millis == date.time % 1000
    IN  <<"1", "9", "7", "0", "-", "0", "1", "-", "0", "1", "T",
          "0", "0", ":", "0", "0", ":">>
        \o <<Digit[(seconds \div 10) + 1], Digit[(seconds % 10) + 1], ".">>
        \o <<Digit[(millis \div 100) + 1], Digit[((millis \div 10) % 10) + 1],
             Digit[(millis % 10) + 1], "Z">>

InvalidDate == [invalid |-> TRUE]

\* new Date(value) for the strings toISOString makes; anything else that is
\* not such a string gives an invalid Date.
newDate(value) ==
    IF "string" \in DOMAIN value
    THEN LET s == value.string
         IN  IF /\ Len(s) = 24
                /\ SubSeq(s, 1, 17) = SubSeq(toISOString([time |-> 0]), 1, 17)
                /\ \A i \in {18, 19, 21, 22, 23} : IsDigit(s[i])
                /\ s[20] = "." /\ s[24] = "Z"
             THEN [time |-> (DigitValue(s[18]) * 10 + DigitValue(s[19])) * 1000
                            + DigitValue(s[21]) * 100 + DigitValue(s[22]) * 10
                            + DigitValue(s[23])]
             ELSE InvalidDate
    ELSE InvalidDate

KeyEvents == <<"e", "v", "e", "n", "t", "s">>
KeyLastSequenceNumber ==
    <<"l", "a", "s", "t", "S", "e", "q", "u", "e", "n", "c", "e",
      "N", "u", "m", "b", "e", "r">>
KeySequenceNumber ==
    <<"s", "e", "q", "u", "e", "n", "c", "e", "N", "u", "m", "b", "e", "r">>
KeyTimestamp == <<"t", "i", "m", "e", "s", "t", "a", "m", "p">>
KeyEventType == <<"e", "v", "e", "n", "t", "T", "y", "p", "e">>
KeyPayload == <<"p", "a", "y", "l", "o", "a", "d">>

\* `{...record, timestamp: record.timestamp.toISOString()}`.
serializedRecord(record) ==
    [object |->
        <<[key |-> KeySequenceNumber, value |-> [number |-> record.sequenceNumber]],
          [key |-> KeyTimestamp, value |-> [string |-> toISOString(record.timestamp)]],
          [key |-> KeyEventType, value |-> [string |-> record.eventType]],
          [key |-> KeyPayload, value |-> record.payload]>>]

\* EventStream.serialize(): the text written to the file.
serializeText(records, last) ==
    <<"{", " ">> \o quote(KeyEvents) \o <<":", " ", "[", "\n">>
    \o join([i \in 1..Len(records) |-> stringify(serializedRecord(records[i]))],
            <<",", "\n">>)
    \o <<"\n", "]", ",", "\n">>
    \o quote(KeyLastSequenceNumber) \o <<":", " ">> \o numberToString(last)
    \o <<"\n", "}">>

\* revived without `new Date(...)`: the timestamp stays the parsed string.
revivedTimestampString(record) ==
    [sequenceNumber |-> Get(record, KeySequenceNumber).number,
     timestamp |-> Get(record, KeyTimestamp),
     eventType |-> Get(record, KeyEventType).string,
     payload |-> Get(record, KeyPayload)]

\* `{...record, timestamp: new Date(record.timestamp)}` for a parsed record.
revived(record) ==
    [sequenceNumber |-> Get(record, KeySequenceNumber).number,
     timestamp |-> newDate(Get(record, KeyTimestamp)),
     eventType |-> Get(record, KeyEventType).string,
     payload |-> Get(record, KeyPayload)]

\* deserialize taking the counter of a new EventStream, without line 47.
deserializeCounterReset(serialized) ==
    LET obj == parse(serialized)
    IN  IF Failed(obj) THEN obj
        ELSE IF "null" \in DOMAIN obj THEN TypeError
        ELSE IF "array" \notin DOMAIN Get(obj, KeyEvents) THEN TypeError
        ELSE [eventRecords |->
                 [i \in 1..Len(Get(obj, KeyEvents).array) |->
                     revived(Get(obj, KeyEvents).array[i])],
              lastSequenceNumber |-> 0]

\* EventStream.deserialize(serialized): the record sequence and the counter
\* of the new stream, or the error thrown.
deserialize(serialized) ==
    LET obj == parse(serialized)
    IN  IF Failed(obj) THEN obj
        ELSE IF "null" \in DOMAIN obj THEN TypeError
        ELSE IF "array" \notin DOMAIN Get(obj, KeyEvents) THEN TypeError
        ELSE [eventRecords |->
                 [i \in 1..Len(Get(obj, KeyEvents).array) |->
                     revived(Get(obj, KeyEvents).array[i])],
              lastSequenceNumber |-> Get(obj, KeyLastSequenceNumber).number]

\* ------------------------------------------------------------------ state
VARIABLES
    eventRecords,        \* EventStream.eventRecords
    lastSequenceNumber,  \* EventStream.lastSequenceNumber
    lock,                \* MemoryEventStore.lock
    writeThruFilename,   \* MemoryEventStore.writeThruFilename (set or not)
    file,                \* the content of the persisted file
    subscribers,         \* the handlers subscribed at the notifier
    delivered,           \* per handler, the batches handed to it
    pc,                  \* per caller, the await it is suspended at
    call,                \* per caller, the arguments of its running call
    local,               \* per caller, the locals of its running call
    ctx,                 \* per caller, the context of its last query
    outcome,             \* per caller, how its last append ended
    nOps                 \* the number of calls made so far

vars == <<eventRecords, lastSequenceNumber, lock, writeThruFilename, file,
          subscribers, delivered, pc, call, local, ctx, outcome, nOps>>

store == <<eventRecords, lastSequenceNumber>>

NoCall == [op |-> "none"]
NoLocal == [none |-> TRUE]
NoCtx == [none |-> TRUE]

Init ==
    /\ eventRecords = <<>>
    /\ lastSequenceNumber = 0
    /\ lock = NewLock
    /\ writeThruFilename \in BOOLEAN
    /\ file = NoFile
    /\ subscribers = {}
    /\ delivered = [h \in Handlers |-> <<>>]
    /\ pc = [p \in Procs |-> "idle"]
    /\ call = [p \in Procs |-> NoCall]
    /\ local = [p \in Procs |-> NoLocal]
    /\ ctx = [p \in Procs |-> NoCtx]
    /\ outcome = [p \in Procs |-> "none"]
    /\ nOps = 0


\* ------------------------------------------------------ notifiers (spec)
\* MemoryEventStreamNotifier.notify: every subscribed handler gets the batch.
notify(records) ==
    [h \in Handlers |->
        IF h \in subscribers THEN Append(delivered[h], records) ELSE delivered[h]]

\* notify resolving only when the execution of the handler (caller 2 of
\* the store with a calling handler) has returned.
notifyResolvedAfterHandlers(p) == p = 2 \/ pc[2] = "idle"

\* The promise of notify resolves once the batch has been handed to the
\* handlers: delivery is scheduled, it need not have finished.
notifyResolved(p) == TRUE

\* ------------------------------------------------- MemoryEventStore.query
\* query / append wrap a bare EventFilter into an EventQuery.
toEventQuery(queryOrFilter) ==
    IF queryOrFilter # Undefined /\ "filters" \notin DOMAIN queryOrFilter
    THEN createQuery(<<queryOrFilter>>)
    ELSE queryOrFilter

\* queryWithLock's body with `matchingEvents.length` for the sequence
\* number of the last matching record.
QueryResultCount(records, query) ==
    LET matchingEvents == processQuery(records, query)
    IN  [events |-> matchingEvents,
         maxSequenceNumber |-> Len(matchingEvents)]

\* queryWithLock's body: the matching records and their maxSequenceNumber.
QueryResult(records, query) ==
    LET matchingEvents == processQuery(records, query)
    IN  [events |-> matchingEvents,
         maxSequenceNumber |->
            IF Len(matchingEvents) > 0
            THEN matchingEvents[Len(matchingEvents)].sequenceNumber
            ELSE 0]

\* A caller that is not inside a call makes its next call.
Starts(p) ==
    /\ pc[p] = "idle"
    /\ nOps < MaxOps
    /\ nOps' = nOps + 1
    /\ outcome' = [outcome EXCEPT ![p] = "none"]

\* query(queryOrFilter) up to its await of lock.acquireRead().
QueryCall(p) ==
    /\ Starts(p)
    /\ ctx' = [ctx EXCEPT ![p] = NoCtx]
    /\ \E queryOrFilter \in QueryInputs :
          call' = [call EXCEPT ![p] = [op |-> "query", queryOrFilter |-> queryOrFilter]]
    /\ lock' = acquireRead(lock, p)
    /\ pc' = [pc EXCEPT ![p] = "q_wait"]
    /\ UNCHANGED <<eventRecords, lastSequenceNumber, writeThruFilename, file,
                   subscribers, delivered, local>>

\* QueryRun without the await of lock.acquireRead(): the body and the
\* finally run whether or not the permit has been granted.
QueryRunUngranted(p) ==
    /\ pc[p] = "q_wait"
    /\ LET result == QueryResult(eventRecords, toEventQuery(call[p].queryOrFilter))
       IN  ctx' = [ctx EXCEPT ![p] =
                      [via |-> "query",
                       queryOrFilter |-> call[p].queryOrFilter,
                       events |-> result.events,
                       maxSequenceNumber |-> result.maxSequenceNumber]]
    /\ lock' = releaseRead(lock, p)
    /\ pc' = [pc EXCEPT ![p] = "idle"]
    /\ call' = [call EXCEPT ![p] = NoCall]
    /\ UNCHANGED <<eventRecords, lastSequenceNumber, writeThruFilename, file,
                   subscribers, delivered, local, outcome, nOps>>

\* queryWithLock after the read permit is granted: the try body and the
\* finally run without an await in between.
QueryRun(p) ==
    /\ pc[p] = "q_wait"
    /\ p \in lock.granted
    /\ LET result == QueryResult(eventRecords, toEventQuery(call[p].queryOrFilter))
       IN  ctx' = [ctx EXCEPT ![p] =
                      [via |-> "query",
                       queryOrFilter |-> call[p].queryOrFilter,
                       events |-> result.events,
                       maxSequenceNumber |-> result.maxSequenceNumber]]
    /\ lock' = releaseRead(lock, p)
    /\ pc' = [pc EXCEPT ![p] = "idle"]
    /\ call' = [call EXCEPT ![p] = NoCall]
    /\ UNCHANGED <<eventRecords, lastSequenceNumber, writeThruFilename, file,
                   subscribers, delivered, local, outcome, nOps>>

\* queryAll's body with `events[0]` for the last element.
QueryAllResultFirst(records) ==
    [events |-> records,
     maxSequenceNumber |->
        IF Len(records) > 0 THEN records[1].sequenceNumber ELSE 0]

\* queryAll's body, lines 49-54: all records and the last one's number.
QueryAllResult(records) ==
    [events |-> records,
     maxSequenceNumber |->
        IF Len(records) > 0 THEN records[Len(records)].sequenceNumber ELSE 0]

\* queryAll(): no lock, no await.  The result's events is the array
\* this.eventStream.eventRecords itself, not a copy of it.
QueryAll(p) ==
    /\ Starts(p)
    /\ call' = [call EXCEPT ![p] = NoCall]
    /\ LET result == QueryAllResult(eventRecords)
       IN  ctx' = [ctx EXCEPT ![p] =
                      [via |-> "queryAll",
                       queryOrFilter |-> Undefined,
                       events |-> result.events,
                       maxSequenceNumber |-> result.maxSequenceNumber]]
    /\ UNCHANGED <<eventRecords, lastSequenceNumber, lock, writeThruFilename, file,
                   subscribers, delivered, pc, local>>

\* ------------------------------------------------ MemoryEventStore.append
\* EventStream.append pushes onto the array in place: every queryAll result
\* a caller still holds is that array and shows the pushed records.
Pushed(records) ==
    [q \in DOMAIN ctx |->
        IF ctx[q] # NoCtx /\ ctx[q].via = "queryAll"
        THEN [ctx[q] EXCEPT !.events = records]
        ELSE ctx[q]]

RECURSIVE PendingEvents(_)
PendingEvents(ps) ==
    IF ps = {} THEN 0
    ELSE LET p == CHOOSE q \in ps : TRUE
         IN  (IF pc[p] \in {"a_wait", "a_checked"} THEN Len(call[p].events) ELSE 0)
             + PendingEvents(ps \ {p})

\* The overloads of append take a context as an EventQuery or EventFilter
\* and a number: the caller holds the result of a query(queryOrFilter).
HoldsContext(p) ==
    /\ ctx[p] # NoCtx
    /\ ctx[p].via = "query"
    /\ ctx[p].queryOrFilter # Undefined

\* The arguments a caller passes: a plain append, or a conditional append
\* with the query and maxSequenceNumber of the context it holds.  A caller
\* uses a context in its next call or drops it.
AppendArgs(p) ==
    { [op |-> "append", events |-> events, hasContext |-> FALSE,
       queryOrFilter |-> Undefined, expectedMaxSequenceNumber |-> 0]
      : events \in Batches }
    \cup
    { [op |-> "append", events |-> events, hasContext |-> TRUE,
       queryOrFilter |-> ctx[p].queryOrFilter,
       expectedMaxSequenceNumber |-> ctx[p].maxSequenceNumber]
      : events \in IF HoldsContext(p) THEN Batches ELSE {} }

\* What is remembered of a caller's last append until its next call: the
\* context it passed and whether it asked for records the context selects.
Summary(c) ==
    IF c.hasContext
    THEN [op |-> "appended", hasContext |-> TRUE,
          queryOrFilter |-> c.queryOrFilter,
          expectedMaxSequenceNumber |-> c.expectedMaxSequenceNumber,
          relevant |-> /\ c.events # <<>>
                       /\ \A i \in 1..Len(c.events) :
                              MatchesQuery(c.events[i], toEventQuery(c.queryOrFilter))]
    ELSE [op |-> "appended", hasContext |-> FALSE]

\* `if (expectedMaxSequenceNumber)`: undefined and 0 are both falsy.
Truthy(c) == c.hasContext /\ c.expectedMaxSequenceNumber # 0

\* append(...) up to its await of lock.acquireWrite().
AppendCall(p) ==
    /\ Starts(p)
    /\ \E args \in AppendArgs(p) :
          /\ Len(eventRecords) + PendingEvents(Procs) + Len(args.events) <= MaxLog
          /\ call' = [call EXCEPT ![p] = args]
    /\ lock' = acquireWrite(lock, p)
    /\ ctx' = [ctx EXCEPT ![p] = NoCtx]
    /\ pc' = [pc EXCEPT ![p] = "a_wait"]
    /\ UNCHANGED <<eventRecords, lastSequenceNumber, writeThruFilename, file,
                   subscribers, delivered, local>>

\* AppendWrite with an EventStream.append that leaves its loop after the
\* first event.
AppendWriteFirstOnly(p) ==
    LET created == NewRecords(call[p].events, lastSequenceNumber)
        pushed == IF created = <<>> THEN <<>> ELSE <<Head(created)>>
    IN  /\ eventRecords' = eventRecords \o pushed
        /\ lastSequenceNumber' = lastSequenceNumber + Len(pushed)
        /\ local' = [local EXCEPT ![p] = [eventRecords |-> created]]
        /\ IF writeThruFilename
           THEN /\ pc' = [pc EXCEPT ![p] = "a_import"]
                /\ UNCHANGED delivered
           ELSE /\ pc' = [pc EXCEPT ![p] = "a_notified"]
                /\ delivered' = notify(created)
        /\ ctx' = Pushed(eventRecords')
        /\ UNCHANGED <<lock, writeThruFilename, file, subscribers, call,
                       outcome, nOps>>

\* AppendWrite with `unshift` for the `push` of EventStream.append.
AppendWriteUnshift(p) ==
    LET created == NewRecords(call[p].events, lastSequenceNumber)
    IN  /\ eventRecords' = created \o eventRecords
        /\ lastSequenceNumber' = lastSequenceNumber + Len(call[p].events)
        /\ local' = [local EXCEPT ![p] = [eventRecords |-> created]]
        /\ IF writeThruFilename
           THEN /\ pc' = [pc EXCEPT ![p] = "a_import"]
                /\ UNCHANGED delivered
           ELSE /\ pc' = [pc EXCEPT ![p] = "a_notified"]
                /\ delivered' = notify(created)
        /\ ctx' = Pushed(eventRecords')
        /\ UNCHANGED <<lock, writeThruFilename, file, subscribers, call,
                       outcome, nOps>>

\* Lines 76-82 up to the next await: EventStream.append, then either the
\* await of storeToFile (write-through) or the call of notifier.notify.
AppendWrite(p) ==
    LET created == NewRecords(call[p].events, lastSequenceNumber)
    IN  /\ eventRecords' = eventRecords \o created
        /\ lastSequenceNumber' = lastSequenceNumber + Len(call[p].events)
        /\ local' = [local EXCEPT ![p] = [eventRecords |-> created]]
        /\ IF writeThruFilename
           THEN /\ pc' = [pc EXCEPT ![p] = "a_import"]
                /\ UNCHANGED delivered
           ELSE /\ pc' = [pc EXCEPT ![p] = "a_notified"]
                /\ delivered' = notify(created)
        /\ ctx' = Pushed(eventRecords')
        /\ UNCHANGED <<lock, writeThruFilename, file, subscribers, call,
                       outcome, nOps>>

\* AppendRecheck with the write permit given back once the context query
\* has been evaluated.
AppendRecheckUnlocked(p) ==
    /\ local' = [local EXCEPT ![p] =
                    [currentQueryResult |->
                        QueryResult(eventRecords, toEventQuery(call[p].queryOrFilter))]]
    /\ pc' = [pc EXCEPT ![p] = "a_checked"]
    /\ lock' = releaseWrite(lock, p)
    /\ UNCHANGED <<eventRecords, lastSequenceNumber, writeThruFilename, file,
                   subscribers, delivered, call, ctx, outcome, nOps>>

\* AppendRecheck evaluating the context query on the log with the events
\* of the call already appended to it.
AppendRecheckAfterAppend(p) ==
    /\ local' = [local EXCEPT ![p] =
                    [currentQueryResult |->
                        QueryResult(eventRecords
                                        \o NewRecords(call[p].events, lastSequenceNumber),
                                    toEventQuery(call[p].queryOrFilter))]]
    /\ pc' = [pc EXCEPT ![p] = "a_checked"]
    /\ UNCHANGED <<eventRecords, lastSequenceNumber, lock, writeThruFilename, file,
                   subscribers, delivered, call, ctx, outcome, nOps>>

\* The context re-check of lines 64-70, up to the await of queryWithLock.
AppendRecheck(p) ==
    /\ local' = [local EXCEPT ![p] =
                    [currentQueryResult |->
                        QueryResult(eventRecords, toEventQuery(call[p].queryOrFilter))]]
    /\ pc' = [pc EXCEPT ![p] = "a_checked"]
    /\ UNCHANGED <<eventRecords, lastSequenceNumber, lock, writeThruFilename, file,
                   subscribers, delivered, call, ctx, outcome, nOps>>

\* AppendEnter without the await of lock.acquireWrite(): the try block
\* starts whether or not the write permit has been granted.
AppendEnterUngranted(p) ==
    /\ pc[p] = "a_wait"
    /\ IF Truthy(call[p]) THEN AppendRecheck(p) ELSE AppendWrite(p)

\* The write permit is granted: the try block starts.
AppendEnter(p) ==
    /\ pc[p] = "a_wait"
    /\ p \in lock.granted
    /\ IF Truthy(call[p]) THEN AppendRecheck(p) ELSE AppendWrite(p)

\* AppendConflict with the comparison placed after EventStream.append.
AppendConflictAfterWrite(p) ==
    /\ eventRecords' = eventRecords \o NewRecords(call[p].events, lastSequenceNumber)
    /\ lastSequenceNumber' = lastSequenceNumber + Len(call[p].events)
    /\ lock' = releaseWrite(lock, p)
    /\ outcome' = [outcome EXCEPT ![p] = "conflict"]
    /\ pc' = [pc EXCEPT ![p] = "idle"]
    /\ call' = [call EXCEPT ![p] = Summary(call[p])]
    /\ local' = [local EXCEPT ![p] = NoLocal]
    /\ ctx' = Pushed(eventRecords')
    /\ UNCHANGED <<writeThruFilename, file, subscribers, delivered, nOps>>

\* AppendConflict without the finally: the throw leaves the permit held.
AppendConflictNoRelease(p) ==
    /\ outcome' = [outcome EXCEPT ![p] = "conflict"]
    /\ pc' = [pc EXCEPT ![p] = "idle"]
    /\ call' = [call EXCEPT ![p] = Summary(call[p])]
    /\ local' = [local EXCEPT ![p] = NoLocal]
    /\ UNCHANGED <<eventRecords, lastSequenceNumber, lock, writeThruFilename, file,
                   subscribers, delivered, ctx, nOps>>

\* Line 71-73: the throw of the Conflict error, and the finally.
AppendConflict(p) ==
    /\ lock' = releaseWrite(lock, p)
    /\ outcome' = [outcome EXCEPT ![p] = "conflict"]
    /\ pc' = [pc EXCEPT ![p] = "idle"]
    /\ call' = [call EXCEPT ![p] = Summary(call[p])]
    /\ local' = [local EXCEPT ![p] = NoLocal]
    /\ UNCHANGED <<eventRecords, lastSequenceNumber, writeThruFilename, file,
                   subscribers, delivered, ctx, nOps>>

\* AppendCompare comparing the number of matching records, not the
\* sequence number of the last one.
AppendCompareByCount(p) ==
    /\ pc[p] = "a_checked"
    /\ IF Len(local[p].currentQueryResult.events)
            # call[p].expectedMaxSequenceNumber
       THEN AppendConflict(p)
       ELSE AppendWrite(p)

\* After the await of queryWithLock: compare, then throw or go on.
AppendCompare(p) ==
    /\ pc[p] = "a_checked"
    /\ IF local[p].currentQueryResult.maxSequenceNumber
            # call[p].expectedMaxSequenceNumber
       THEN AppendConflict(p)
       ELSE AppendWrite(p)

\* ------------------------------------------- MemoryEventStore.storeToFile
\* storeToFile after `await import(...)`: serialize, then start fs.writeFile.
Serialized(p) ==
    local' = [local EXCEPT ![p] =
                 [eventRecords |-> IF "eventRecords" \in DOMAIN local[p]
                                   THEN local[p].eventRecords ELSE <<>>,
                  data |-> serialize(eventRecords, lastSequenceNumber)]]

\* AppendImported with the write permit given back before the persistence
\* write and the notification.
AppendImportedReleasing(p) ==
    /\ pc[p] = "a_import"
    /\ Serialized(p)
    /\ pc' = [pc EXCEPT ![p] = "a_writing"]
    /\ lock' = releaseWrite(lock, p)
    /\ UNCHANGED <<eventRecords, lastSequenceNumber, writeThruFilename, file,
                   subscribers, delivered, call, ctx, outcome, nOps>>

\* Write-through, line 78-79: the import inside storeToFile has resolved.
AppendImported(p) ==
    /\ pc[p] = "a_import"
    /\ Serialized(p)
    /\ pc' = [pc EXCEPT ![p] = "a_writing"]
    /\ UNCHANGED <<eventRecords, lastSequenceNumber, lock, writeThruFilename, file,
                   subscribers, delivered, call, ctx, outcome, nOps>>

\* AppendStored without the call of notifier.notify at line 82.
AppendStoredNoNotify(p) ==
    /\ pc[p] = "a_writing"
    /\ file' = local[p].data
    /\ pc' = [pc EXCEPT ![p] = "a_notified"]
    /\ UNCHANGED <<eventRecords, lastSequenceNumber, lock, writeThruFilename,
                   subscribers, delivered, call, local, ctx, outcome, nOps>>

\* fs.writeFile resolved: storeToFile returns, line 82 calls notifier.notify.
AppendStored(p) ==
    /\ pc[p] = "a_writing"
    /\ file' = local[p].data
    /\ delivered' = notify(local[p].eventRecords)
    /\ pc' = [pc EXCEPT ![p] = "a_notified"]
    /\ UNCHANGED <<eventRecords, lastSequenceNumber, lock, writeThruFilename,
                   subscribers, call, local, ctx, outcome, nOps>>

\* AppendStoreFailed with the error of storeToFile caught and dropped.
AppendStoreFailedSwallowed(p) ==
    /\ pc[p] = "a_writing"
    /\ lock' = releaseWrite(lock, p)
    /\ outcome' = [outcome EXCEPT ![p] = "ok"]
    /\ pc' = [pc EXCEPT ![p] = "idle"]
    /\ call' = [call EXCEPT ![p] = Summary(call[p])]
    /\ local' = [local EXCEPT ![p] = NoLocal]
    /\ UNCHANGED <<eventRecords, lastSequenceNumber, writeThruFilename, file,
                   subscribers, delivered, ctx, nOps>>

\* fs.writeFile rejected (the file keeps its content): the error leaves
\* append through the finally.
AppendStoreFailed(p) ==
    /\ pc[p] = "a_writing"
    /\ lock' = releaseWrite(lock, p)
    /\ outcome' = [outcome EXCEPT ![p] = "persistence"]
    /\ pc' = [pc EXCEPT ![p] = "idle"]
    /\ call' = [call EXCEPT ![p] = Summary(call[p])]
    /\ local' = [local EXCEPT ![p] = NoLocal]
    /\ UNCHANGED <<eventRecords, lastSequenceNumber, writeThruFilename, file,
                   subscribers, delivered, ctx, nOps>>

\* The await of notifier.notify resolved: finally, then return.
AppendReturn(p) ==
    /\ pc[p] = "a_notified"
    /\ notifyResolved(p)
    /\ lock' = releaseWrite(lock, p)
    /\ outcome' = [outcome EXCEPT ![p] = "ok"]
    /\ pc' = [pc EXCEPT ![p] = "idle"]
    /\ call' = [call EXCEPT ![p] = Summary(call[p])]
    /\ local' = [local EXCEPT ![p] = NoLocal]
    /\ UNCHANGED <<eventRecords, lastSequenceNumber, writeThruFilename, file,
                   subscribers, delivered, ctx, nOps>>

\* A caller's own storeToFile(filename): no lock is taken.
StoreCall(p) ==
    /\ Starts(p)
    /\ ctx' = [ctx EXCEPT ![p] = NoCtx]
    /\ call' = [call EXCEPT ![p] = [op |-> "storeToFile"]]
    /\ pc' = [pc EXCEPT ![p] = "s_import"]
    /\ UNCHANGED <<eventRecords, lastSequenceNumber, lock, writeThruFilename, file,
                   subscribers, delivered, local>>

StoreImported(p) ==
    /\ pc[p] = "s_import"
    /\ Serialized(p)
    /\ pc' = [pc EXCEPT ![p] = "s_writing"]
    /\ UNCHANGED <<eventRecords, lastSequenceNumber, lock, writeThruFilename, file,
                   subscribers, delivered, call, ctx, outcome, nOps>>

StoreDone(p) ==
    /\ pc[p] = "s_writing"
    /\ file' = local[p].data
    /\ pc' = [pc EXCEPT ![p] = "idle"]
    /\ call' = [call EXCEPT ![p] = NoCall]
    /\ local' = [local EXCEPT ![p] = NoLocal]
    /\ UNCHANGED <<eventRecords, lastSequenceNumber, lock, writeThruFilename,
                   subscribers, delivered, ctx, outcome, nOps>>

StoreFailed(p) ==
    /\ pc[p] = "s_writing"
    /\ pc' = [pc EXCEPT ![p] = "idle"]
    /\ call' = [call EXCEPT ![p] = NoCall]
    /\ local' = [local EXCEPT ![p] = NoLocal]
    /\ UNCHANGED <<eventRecords, lastSequenceNumber, lock, writeThruFilename, file,
                   subscribers, delivered, ctx, outcome, nOps>>

\* ---------------------------------------------- MemoryEventStore.subscribe
Subscribe(p, h) ==
    /\ Starts(p)
    /\ ctx' = [ctx EXCEPT ![p] = NoCtx]
    /\ call' = [call EXCEPT ![p] = NoCall]
    /\ h \notin subscribers
    /\ subscribers' = subscribers \cup {h}
    /\ UNCHANGED <<eventRecords, lastSequenceNumber, lock, writeThruFilename, file,
                   delivered, pc, local>>

\* ---------------------------------------------------------- specification
Next ==
    \/ \E p \in Procs : QueryCall(p)
    \/ \E p \in Procs : QueryRun(p)
    \/ \E p \in Procs : QueryAll(p)
    \/ \E p \in Procs : AppendCall(p)
    \/ \E p \in Procs : AppendEnter(p)
    \/ \E p \in Procs : AppendCompare(p)
    \/ \E p \in Procs : AppendImported(p)
    \/ \E p \in Procs : AppendStored(p)
    \/ \E p \in Procs : AppendStoreFailed(p)
    \/ \E p \in Procs : AppendReturn(p)
    \/ \E p \in Procs : StoreCall(p)
    \/ \E p \in Procs : StoreImported(p)
    \/ \E p \in Procs : StoreDone(p)
    \/ \E p \in Procs : StoreFailed(p)
    \/ \E p \in Procs, h \in Handlers : Subscribe(p, h)

Spec == Init /\ [][Next]_vars

\* ------------------------------------------------- the lock under load
\* The callers of the lock alone: what queryWithLock and append do with
\* it, acquire, hold, release, by more callers than the store model has
\* and without a bound on the number of calls.
LockProcs == {1, 2, 3, 4}

LockInit ==
    /\ eventRecords = <<>>
    /\ lastSequenceNumber = 0
    /\ lock = NewLock
    /\ writeThruFilename = FALSE
    /\ file = NoFile
    /\ subscribers = {}
    /\ delivered = [h \in Handlers |-> <<>>]
    /\ pc = [p \in LockProcs |-> "idle"]
    /\ call = [p \in LockProcs |-> NoCall]
    /\ local = [p \in LockProcs |-> NoLocal]
    /\ ctx = [p \in LockProcs |-> NoCtx]
    /\ outcome = [p \in LockProcs |-> "none"]
    /\ nOps = 0

LockUnchanged ==
    UNCHANGED <<eventRecords, lastSequenceNumber, writeThruFilename, file,
                subscribers, delivered, call, local, ctx, outcome, nOps>>

\* queryWithLock: `await lock.acquireRead()`.
LockReadRequest(p) ==
    /\ pc[p] = "idle"
    /\ lock' = acquireRead(lock, p)
    /\ pc' = [pc EXCEPT ![p] = "q_wait"]
    /\ LockUnchanged

\* queryWithLock: the finally, `lock.releaseRead()`.
LockReadRelease(p) ==
    /\ pc[p] = "q_wait"
    /\ p \in lock.granted
    /\ lock' = releaseRead(lock, p)
    /\ pc' = [pc EXCEPT ![p] = "idle"]
    /\ LockUnchanged

\* append: `await this.lock.acquireWrite()`.
LockWriteRequest(p) ==
    /\ pc[p] = "idle"
    /\ lock' = acquireWrite(lock, p)
    /\ pc' = [pc EXCEPT ![p] = "a_wait"]
    /\ LockUnchanged

\* append: the finally, `this.lock.releaseWrite()`.
LockWriteRelease(p) ==
    /\ pc[p] = "a_wait"
    /\ p \in lock.granted
    /\ lock' = releaseWrite(lock, p)
    /\ pc' = [pc EXCEPT ![p] = "idle"]
    /\ LockUnchanged

LockNext ==
    \/ \E p \in LockProcs : LockReadRequest(p)
    \/ \E p \in LockProcs : LockReadRelease(p)
    \/ \E p \in LockProcs : LockWriteRequest(p)
    \/ \E p \in LockProcs : LockWriteRelease(p)

LockSpec == LockInit /\ [][LockNext]_vars

\* Every caller that holds a permit gives it back: the finally blocks of
\* queryWithLock and append run.  Requests may keep arriving for ever.
LockFairSpec ==
    /\ LockInit
    /\ [][LockNext]_vars
    /\ \A p \in LockProcs :
          WF_vars(LockReadRelease(p)) /\ WF_vars(LockWriteRelease(p))

\* ------------------------------------------------- queries on a fixed log
\* query applied to the logs of up to MaxMatchLog records over events of two
\* types and two payloads, with every way of calling it: no argument, a bare
\* filter, a query of no, one or two filters, each filter built by
\* createFilter from event types and an optional list of payload patterns.
MaxMatchLog == 2

MatchEvents == [eventType : EventTypes, payload : {[k |-> 1], [k |-> 2, j |-> 1]}]

MatchLogs ==
    {NewRecords(events, 0) : events \in SeqsUpTo(MatchEvents, MaxMatchLog)}

FilterArgs ==
    [eventTypes : {{}, {"e1"}, {"e1", "e2"}},
     payloadPredicates : {{}, {<<>>}, {<<[k |-> 1]>>}, {<<[j |-> 1], [k |-> 3]>>}}]

MatchCalls ==
    {[op |-> "query", shape |-> "none", filters |-> <<>>]}
    \cup {[op |-> "query", shape |-> "filter", filters |-> <<f>>] : f \in FilterArgs}
    \cup {[op |-> "query", shape |-> "query", filters |-> fs] : fs \in SeqsUpTo(FilterArgs, 2)}

\* The argument the caller passes to query for a call of MatchCalls.
MatchArgument(c) ==
    LET built == [i \in 1..Len(c.filters) |->
                    createFilter(c.filters[i].eventTypes, c.filters[i].payloadPredicates)]
    IN  IF c.shape = "none" THEN Undefined
        ELSE IF c.shape = "filter" THEN built[1]
        ELSE createQuery(built)

MatchInit ==
    /\ eventRecords \in MatchLogs
    /\ lastSequenceNumber = Len(eventRecords)
    /\ lock = NewLock
    /\ writeThruFilename = FALSE
    /\ file = NoFile
    /\ subscribers = {}
    /\ delivered = [h \in Handlers |-> <<>>]
    /\ pc = [p \in Procs |-> "idle"]
    /\ call = [p \in Procs |-> NoCall]
    /\ local = [p \in Procs |-> NoLocal]
    /\ ctx = [p \in Procs |-> NoCtx]
    /\ outcome = [p \in Procs |-> "none"]
    /\ nOps = 0

\* One query call on the store with nobody else calling: the read permit is
\* granted at once, so the call runs from line 23 to its return.
MatchQuery(p) ==
    /\ call[p] = NoCall
    /\ \E c \in MatchCalls :
          LET queryOrFilter == MatchArgument(c)
              result == QueryResult(eventRecords, toEventQuery(queryOrFilter))
          IN  /\ call' = [call EXCEPT ![p] = c]
              /\ ctx' = [ctx EXCEPT ![p] =
                            [via |-> "query",
                             queryOrFilter |-> queryOrFilter,
                             events |-> result.events,
                             maxSequenceNumber |-> result.maxSequenceNumber]]
    /\ lock' = releaseRead(acquireRead(lock, p), p)
    /\ nOps' = nOps + 1
    /\ UNCHANGED <<eventRecords, lastSequenceNumber, writeThruFilename, file,
                   subscribers, delivered, pc, local, outcome>>

MatchNext == MatchQuery(1)

MatchSpec == MatchInit /\ [][MatchNext]_vars

\* ------------------------------------------------------- the round trip
\* serialize and deserialize applied to the logs of up to MaxRoundTripLog
\* records that EventStream.append makes of events with an empty payload,
\* strings with characters JSON escapes, numbers, and nested arrays and
\* objects, stamped with the clock's dates.
MaxRoundTripLog == 2

RoundTripPayloads ==
    { [object |-> <<>>],
      [object |-> <<[key |-> <<"m", "s", "g">>,
                     value |-> [string |-> <<"a", "\"", "b", "\\", "\n", " ", "c">>]]>>],
      [object |-> <<[key |-> <<"a", "m", "o", "u", "n", "t">>, value |-> [number |-> 99]],
                    [key |-> <<"d", "e", "b", "i", "t">>, value |-> [number |-> 0 - 7]]>>],
      [object |-> <<[key |-> <<"p", "l", "a", "y", "e", "r", "s">>,
                     value |-> [array |-> <<[string |-> <<"M", "a", "r", "y">>],
                                            [object |-> <<[key |-> <<"o", "k">>,
                                                           value |-> [boolean |-> TRUE]],
                                                          [key |-> <<"n">>,
                                                           value |-> [null |-> TRUE]]>>],
                                            [array |-> <<>>]>>]],
                    [key |-> <<"m">>,
                     value |-> [object |-> <<[key |-> <<"x">>,
                                              value |-> [boolean |-> FALSE]]>>]]>>] }

RoundTripEvents == [eventType : {<<"e", "1">>}, payload : RoundTripPayloads]

Dates == {[time |-> 0], [time |-> 59123]}

\* `timestamp: new Date()`: the records with the dates the clock gave.
Stamped(records, dates) ==
    [i \in 1..Len(records) |->
        [sequenceNumber |-> records[i].sequenceNumber,
         timestamp |-> dates[i],
         eventType |-> records[i].eventType,
         payload |-> records[i].payload]]

RoundTripLogs ==
    UNION { { Stamped(NewRecords(events, 0), dates) :
                 events \in {e \in SeqsUpTo(RoundTripEvents, MaxRoundTripLog) : Len(e) = n},
                 dates \in [1..n -> Dates] } :
            n \in 0..MaxRoundTripLog }

RoundTripInit ==
    /\ eventRecords \in RoundTripLogs
    /\ lastSequenceNumber = Len(eventRecords)
    /\ lock = NewLock
    /\ writeThruFilename = FALSE
    /\ file = NoFile
    /\ subscribers = {}
    /\ delivered = [h \in Handlers |-> <<>>]
    /\ pc = [p \in Procs |-> "idle"]
    /\ call = [p \in Procs |-> NoCall]
    /\ local = [p \in Procs |-> NoLocal]
    /\ ctx = [p \in Procs |-> NoCtx]
    /\ outcome = [p \in Procs |-> "none"]
    /\ nOps = 0

\* storeToFile(filename) with nobody else calling, from call to return.
RoundTripStore(p) ==
    /\ file = NoFile
    /\ file' = [text |-> serializeText(eventRecords, lastSequenceNumber)]
    /\ call' = [call EXCEPT ![p] = [op |-> "storeToFile"]]
    /\ UNCHANGED <<eventRecords, lastSequenceNumber, lock, writeThruFilename,
                   subscribers, delivered, pc, local, ctx, outcome, nOps>>

\* EventStream.deserialize(data) of what has been read from the file; the
\* caller holds the new stream.
RoundTripLoad(p) ==
    /\ file # NoFile
    /\ local[p] = NoLocal
    /\ local' = [local EXCEPT ![p] = deserialize(file.text)]
    /\ call' = [call EXCEPT ![p] = [op |-> "createFromFile"]]
    /\ UNCHANGED <<eventRecords, lastSequenceNumber, lock, writeThruFilename, file,
                   subscribers, delivered, pc, ctx, outcome, nOps>>

RoundTripNext == RoundTripStore(1) \/ RoundTripLoad(1)

RoundTripSpec == RoundTripInit /\ [][RoundTripNext]_vars

\* ------------------------------------------------ a store made from a file
\* createFromFile on a file that is missing, unreadable, unusable or was
\* written by storeToFile, and the appends on the store it returns.
Unreadable == [eacces |-> TRUE]

LoadLogs ==
    { Stamped(NewRecords(events, 0), [i \in 1..Len(events) |-> [time |-> 0]]) :
         events \in SeqsUpTo({[eventType |-> <<"e", "1">>, payload |-> [object |-> <<>>]]},
                             MaxRoundTripLog) }

\* An empty file, a file cut off before its last character, and a file
\* that holds an empty JSON object.
Malformed ==
    { [text |-> <<>>],
      [text |-> SubSeq(serializeText(<<>>, 0), 1, Len(serializeText(<<>>, 0)) - 1)],
      [text |-> <<"{", "}">>] }

LoadFiles ==
    {NoFile, Unreadable}
        \cup {[text |-> serializeText(l, Len(l))] : l \in LoadLogs}
        \cup Malformed

\* No store yet: caller 1 is about to call createFromFile.
LoadInit ==
    /\ eventRecords = <<>>
    /\ lastSequenceNumber = 0
    /\ lock = NewLock
    /\ writeThruFilename = FALSE
    /\ file \in LoadFiles
    /\ subscribers = {}
    /\ delivered = [h \in Handlers |-> <<>>]
    /\ pc = [p \in Procs |-> IF p = 1 THEN "new" ELSE "nostore"]
    /\ call = [p \in Procs |-> NoCall]
    /\ local = [p \in Procs |-> NoLocal]
    /\ ctx = [p \in Procs |-> NoCtx]
    /\ outcome = [p \in Procs |-> "none"]
    /\ nOps = 0

\* createFromFile(filename, ignoreMissingFile, writeThruMode) up to its
\* await of fs.readFile.
CreateCall(p) ==
    /\ pc[p] = "new"
    /\ \E ignoreMissingFile, writeThruMode \in BOOLEAN :
          call' = [call EXCEPT ![p] = [op |-> "createFromFile",
                                       ignoreMissingFile |-> ignoreMissingFile,
                                       writeThruMode |-> writeThruMode]]
    /\ pc' = [pc EXCEPT ![p] = "c_read"]
    /\ UNCHANGED <<eventRecords, lastSequenceNumber, lock, writeThruFilename, file,
                   subscribers, delivered, local, ctx, outcome, nOps>>

\* What the try block of createFromFile gets: the stream deserialize
\* returns, or the error fs.readFile rejects with or deserialize throws.
Read ==
    IF file = NoFile THEN [error |-> "ENOENT", code |-> "ENOENT"]
    ELSE IF file = Unreadable THEN [error |-> "EACCES", code |-> "EACCES"]
    ELSE deserialize(file.text)

\* The new store is returned: every caller can use it.
Created(p, records, last) ==
    /\ eventRecords' = records
    /\ lastSequenceNumber' = last
    /\ writeThruFilename' = call[p].writeThruMode
    /\ outcome' = [outcome EXCEPT ![p] = "created"]
    /\ pc' = [q \in Procs |-> "idle"]
    /\ UNCHANGED <<lock, file, subscribers, delivered, call, local, ctx, nOps>>

\* createFromFile throws: there is no store.
Thrown(p, error) ==
    /\ outcome' = [outcome EXCEPT ![p] = error.error]
    /\ pc' = [pc EXCEPT ![p] = "failed"]
    /\ UNCHANGED <<eventRecords, lastSequenceNumber, lock, writeThruFilename, file,
                   subscribers, delivered, call, local, ctx, nOps>>

\* CreateRead with a catch that tests ignoreMissingFile only, not the
\* error's code.
CreateReadIgnoringAll(p) ==
    /\ pc[p] = "c_read"
    /\ IF ~Failed(Read)
       THEN Created(p, Read.eventRecords, Read.lastSequenceNumber)
       ELSE IF call[p].ignoreMissingFile
       THEN Created(p, <<>>, 0)
       ELSE Thrown(p, Read)

\* Lines 106-121 after fs.readFile has settled.
CreateRead(p) ==
    /\ pc[p] = "c_read"
    /\ IF ~Failed(Read)
       THEN Created(p, Read.eventRecords, Read.lastSequenceNumber)
       ELSE IF "code" \in DOMAIN Read /\ Read.code = "ENOENT"
                  /\ call[p].ignoreMissingFile
       THEN Created(p, <<>>, 0)
       ELSE Thrown(p, Read)

LoadNext ==
    \/ CreateCall(1)
    \/ CreateRead(1)
    \/ \E p \in Procs : AppendCall(p)
    \/ \E p \in Procs : AppendEnter(p)
    \/ \E p \in Procs : AppendImported(p)
    \/ \E p \in Procs : AppendStored(p)
    \/ \E p \in Procs : AppendStoreFailed(p)
    \/ \E p \in Procs : AppendReturn(p)

LoadSpec == LoadInit /\ [][LoadNext]_vars

\* ------------------------------------------------- retry after a conflict
\* A caller that makes the conditional append of the README (query, then
\* append with the filter and the maxSequenceNumber of the result) and, when
\* the append throws the Conflict, queries again and appends again.  Caller
\* 1 does so with one filter and one batch, and has just made its first
\* query on a log of one record the filter selects; caller 2 makes plain
\* appends beside it.
RetryQuery == createFilter({"e1"}, {})

RetryEvents == <<[eventType |-> "e1", payload |-> [k |-> 1]]>>

RetryLog == NewRecords(RetryEvents, 0)

RetryInit ==
    /\ eventRecords = RetryLog
    /\ lastSequenceNumber = Len(RetryLog)
    /\ lock = NewLock
    /\ writeThruFilename \in BOOLEAN
    /\ file = IF writeThruFilename
              THEN serialize(eventRecords, lastSequenceNumber) ELSE NoFile
    /\ subscribers = {}
    /\ delivered = [h \in Handlers |-> <<>>]
    /\ pc = [p \in Procs |-> "idle"]
    /\ call = [p \in Procs |-> NoCall]
    /\ local = [p \in Procs |-> NoLocal]
    /\ ctx = [p \in Procs |->
                IF p = 1
                THEN [via |-> "query",
                      queryOrFilter |-> RetryQuery,
                      events |-> QueryResult(RetryLog, toEventQuery(RetryQuery)).events,
                      maxSequenceNumber |->
                          QueryResult(RetryLog, toEventQuery(RetryQuery)).maxSequenceNumber]
                ELSE NoCtx]
    /\ outcome = [p \in Procs |-> "none"]
    /\ nOps = 0

\* Caller 1 appends its batch with the context it holds; caller 2 appends
\* any batch without a context.
RetryAppendCall(p) ==
    /\ AppendCall(p)
    /\ p = 1 => (call'[p].hasContext /\ call'[p].events = RetryEvents)

\* Caller 1 queries again after a Conflict.
RetryQueryCall(p) ==
    /\ p = 1
    /\ outcome[p] = "conflict"
    /\ QueryCall(p)
    /\ call'[p].queryOrFilter = RetryQuery

RetryNext ==
    \/ \E p \in Procs : RetryQueryCall(p)
    \/ \E p \in Procs : QueryRun(p)
    \/ \E p \in Procs : RetryAppendCall(p)
    \/ \E p \in Procs : AppendEnter(p)
    \/ \E p \in Procs : AppendCompare(p)
    \/ \E p \in Procs : AppendImported(p)
    \/ \E p \in Procs : AppendStored(p)
    \/ \E p \in Procs : AppendStoreFailed(p)
    \/ \E p \in Procs : AppendReturn(p)

RetrySpec == RetryInit /\ [][RetryNext]_vars

\* ------------------------------------ after a failed persistence write
\* A write-through store whose first append has thrown the error of
\* fs.writeFile: its record is in the log and there is no file.  Caller 1
\* appends until an append returns normally; caller 2 calls storeToFile.
FailedLog == NewRecords(<<[eventType |-> "e1", payload |-> [k |-> 1]]>>, 0)

FailedWriteInit ==
    /\ eventRecords = FailedLog
    /\ lastSequenceNumber = Len(FailedLog)
    /\ lock = NewLock
    /\ writeThruFilename = TRUE
    /\ file = NoFile
    /\ subscribers = {}
    /\ delivered = [h \in Handlers |-> <<>>]
    /\ pc = [p \in Procs |-> "idle"]
    /\ call = [p \in Procs |->
                 IF p = 1 THEN [op |-> "appended", hasContext |-> FALSE] ELSE NoCall]
    /\ local = [p \in Procs |-> NoLocal]
    /\ ctx = [p \in Procs |-> NoCtx]
    /\ outcome = [p \in Procs |-> IF p = 1 THEN "persistence" ELSE "none"]
    /\ nOps = 0

NextAppendCall(p) ==
    /\ p = 1
    /\ outcome[p] # "ok"
    /\ AppendCall(p)

ExplicitStoreCall(p) ==
    /\ p = 2
    /\ StoreCall(p)

FailedWriteNext ==
    \/ \E p \in Procs : NextAppendCall(p)
    \/ \E p \in Procs : AppendEnter(p)
    \/ \E p \in Procs : AppendImported(p)
    \/ \E p \in Procs : AppendStored(p)
    \/ \E p \in Procs : AppendStoreFailed(p)
    \/ \E p \in Procs : AppendReturn(p)
    \/ \E p \in Procs : ExplicitStoreCall(p)
    \/ \E p \in Procs : StoreImported(p)
    \/ \E p \in Procs : StoreDone(p)
    \/ \E p \in Procs : StoreFailed(p)

FailedWriteSpec == FailedWriteInit /\ [][FailedWriteNext]_vars

\* ------------------------------------------- a handler that calls the store
\* The store with its handler subscribed.  Caller 1 is the application,
\* which appends; caller 2 is the execution of the handler: it calls query
\* and append on the store once a batch has been handed to it, and awaits
\* each result.
\* notify hands the batch over and resolves; the handler runs beside the
\* append that triggered it.
HandlerInit ==
    /\ eventRecords = <<>>
    /\ lastSequenceNumber = 0
    /\ lock = NewLock
    /\ writeThruFilename \in BOOLEAN
    /\ file = NoFile
    /\ subscribers = Handlers
    /\ delivered = [h \in Handlers |-> <<>>]
    /\ pc = [p \in Procs |-> "idle"]
    /\ call = [p \in Procs |-> NoCall]
    /\ local = [p \in Procs |-> NoLocal]
    /\ ctx = [p \in Procs |-> NoCtx]
    /\ outcome = [p \in Procs |-> "none"]
    /\ nOps = 0

HandlerCalls(p) == p = 2 /\ \E h \in subscribers : delivered[h] # <<>>

HandlerQueryCall(p) == HandlerCalls(p) /\ QueryCall(p)

HandlerAppendCall(p) == (p = 1 \/ HandlerCalls(p)) /\ AppendCall(p)

\* fs.writeFile settles: it resolves or it rejects.
AppendWritten(p) == AppendStored(p) \/ AppendStoreFailed(p)

HandlerNext ==
    \/ \E p \in Procs : HandlerQueryCall(p)
    \/ \E p \in Procs : QueryRun(p)
    \/ \E p \in Procs : HandlerAppendCall(p)
    \/ \E p \in Procs : AppendEnter(p)
    \/ \E p \in Procs : AppendCompare(p)
    \/ \E p \in Procs : AppendImported(p)
    \/ \E p \in Procs : AppendStored(p)
    \/ \E p \in Procs : AppendStoreFailed(p)
    \/ \E p \in Procs : AppendReturn(p)

\* Every continuation that is ready runs: a granted permit resumes its
\* caller, an awaited promise that has settled resumes its caller, and
\* fs.writeFile settles.  Nothing obliges a caller to make a call.
HandlerFairSpec ==
    /\ HandlerInit
    /\ [][HandlerNext]_vars
    /\ \A p \in Procs :
          /\ WF_vars(QueryRun(p))
          /\ WF_vars(AppendEnter(p))
          /\ WF_vars(AppendCompare(p))
          /\ WF_vars(AppendImported(p))
          /\ WF_vars(AppendWritten(p))
          /\ WF_vars(AppendReturn(p))

\* ------------------------------------------------------------ properties
\* p's append passes the point where the context is (or would be)
\* re-checked: it goes on from the granted permit without a re-check, or
\* it goes on from the finished re-check.
PassesCheck(p) ==
    \/ pc[p] = "a_wait" /\ pc'[p] \notin {"a_wait", "a_checked"}
    \/ pc[p] = "a_checked" /\ pc'[p] # "a_checked"

\* p's append stores its records in this step.
Writes(p) ==
    /\ pc[p] \in {"a_wait", "a_checked"}
    /\ pc'[p] \in {"a_import", "a_notified"}

\* The context c passed to an append is stale: the log holds a record the
\* context query selects that is newer than the context's maxSequenceNumber.
StaleContext(c) ==
    /\ c.hasContext
    /\ \E i \in 1..Len(eventRecords) :
          /\ MatchesQuery(eventRecords[i], toEventQuery(c.queryOrFilter))
          /\ eventRecords[i].sequenceNumber > c.expectedMaxSequenceNumber

\* C1: a conditional append whose context (Q, m), m = 0 included, went
\* stale between the query and the re-check fails with Conflict and appends
\* nothing.
C1_StaleContextConflicts ==
    [][\A p \in Procs :
          (PassesCheck(p) /\ StaleContext(call[p]))
              => (outcome'[p] = "conflict" /\ eventRecords' = eventRecords)]_vars

\* The same for the contexts with m > 0 only.
C1_StaleNonEmptyContextConflicts ==
    [][\A p \in Procs :
          (PassesCheck(p) /\ StaleContext(call[p])
                /\ call[p].expectedMaxSequenceNumber # 0)
              => (outcome'[p] = "conflict" /\ eventRecords' = eventRecords)]_vars

\* Two callers have each finished a conditional append with the same
\* context query and expectedMaxSequenceNumber, each of records the context
\* selects, on a store without write-through.  With two callers both
\* contexts were fresh when the first of the two appends wrote.
SharedContext(p, q) ==
    /\ p # q
    /\ ~writeThruFilename
    /\ pc[p] = "idle" /\ pc[q] = "idle"
    /\ outcome[p] # "none" /\ outcome[q] # "none"
    /\ call[p].op = "appended" /\ call[q].op = "appended"
    /\ call[p].hasContext /\ call[q].hasContext
    /\ call[p].queryOrFilter = call[q].queryOrFilter
    /\ call[p].expectedMaxSequenceNumber = call[q].expectedMaxSequenceNumber
    /\ call[p].relevant /\ call[q].relevant

\* C2: of two conditional appends that share the context query and the
\* expectedMaxSequenceNumber exactly one succeeds and the other fails with
\* Conflict.
C2_ExactlyOneSucceeds ==
    \A p, q \in Procs :
        SharedContext(p, q) => {outcome[p], outcome[q]} = {"ok", "conflict"}

\* C3: between the re-check of a conditional append and its write nobody
\* else changes the record sequence or the sequence counter: while p is
\* between the two, the only step that changes them is p's own write.
C3_RecheckAndWriteAtomic ==
    [][\A p \in Procs :
          (pc[p] = "a_checked" /\ store' # store) => Writes(p)]_vars

\* A conditional append is between re-check and write while another append
\* call is waiting.
C3_Witness ==
    \E p, q \in Procs : pc[p] = "a_checked" /\ pc[q] = "a_wait"

\* C4: the steps of a conditional append that ends in Conflict (its
\* re-check and its throw) leave the record sequence, lastSequenceNumber,
\* the persisted file and what the subscribers have received as they were.
C4_ConflictLeavesStoreUnchanged ==
    [][\A p \in Procs :
          (\/ pc[p] = "a_wait" /\ pc'[p] = "a_checked"
           \/ pc[p] = "a_checked" /\ outcome'[p] = "conflict")
              => UNCHANGED <<eventRecords, lastSequenceNumber, file, delivered>>]_vars

C4_Witness ==
    \E p \in Procs : pc[p] = "idle" /\ outcome[p] = "conflict"

\* The context c passed to an append is fresh: re-running its query on the
\* current log gives its expectedMaxSequenceNumber.
FreshContext(c) ==
    /\ c.hasContext
    /\ QueryResult(eventRecords, toEventQuery(c.queryOrFilter)).maxSequenceNumber
          = c.expectedMaxSequenceNumber

\* This step puts one record per event of p's call at the end of the log,
\* in input order, numbered on from lastSequenceNumber.
AppendsAll(p) ==
    LET events == call[p].events
        old == Len(eventRecords)
    IN  /\ Len(eventRecords') = old + Len(events)
        /\ \A i \in 1..old : eventRecords'[i] = eventRecords[i]
        /\ \A i \in 1..Len(events) :
              /\ eventRecords'[old + i].sequenceNumber = lastSequenceNumber + i
              /\ eventRecords'[old + i].eventType = events[i].eventType
              /\ eventRecords'[old + i].payload = events[i].payload

\* p's append has passed a re-check that was really made and is on its way
\* to the return.
PassedRecheck(p) ==
    /\ pc[p] \in {"a_import", "a_writing", "a_notified"}
    /\ call[p].hasContext
    /\ call[p].expectedMaxSequenceNumber # 0

\* C5 as stated: a conditional append with a fresh context appends all its
\* events and succeeds.
C5_FreshContextSucceeds ==
    [][\A p \in Procs :
          /\ (PassesCheck(p) /\ FreshContext(call[p])) => (Writes(p) /\ AppendsAll(p))
          /\ (PassedRecheck(p) /\ pc'[p] = "idle") => outcome'[p] = "ok"]_vars

\* C5 amended: a conditional append with a fresh context is not rejected
\* with Conflict and appends all its events; it then returns normally unless
\* the write-through persistence write fails.
C5_FreshContextAppends ==
    [][\A p \in Procs :
          /\ (PassesCheck(p) /\ FreshContext(call[p])) => (Writes(p) /\ AppendsAll(p))
          /\ (PassedRecheck(p) /\ pc'[p] = "idle")
                => \/ outcome'[p] = "ok"
                   \/ /\ outcome'[p] = "persistence"
                      /\ writeThruFilename
                      /\ pc[p] = "a_writing"]_vars

\* A conditional append with m > 0 of records its context selects returned
\* normally.
C5_Witness ==
    \E p \in Procs :
        /\ pc[p] = "idle" /\ outcome[p] = "ok"
        /\ call[p].op = "appended" /\ call[p].hasContext
        /\ call[p].expectedMaxSequenceNumber # 0
        /\ call[p].relevant

\* C6: the i-th stored record has sequenceNumber i and lastSequenceNumber is
\* the number of stored records.
C6_SequenceNumbersGapFree ==
    /\ \A i \in 1..Len(eventRecords) : eventRecords[i].sequenceNumber = i
    /\ lastSequenceNumber = Len(eventRecords)

C6_Witness == Len(eventRecords) >= 3

\* C7: every change of the record sequence is the write of one append call,
\* which puts its N records at the end, in input order, numbered
\* lastSequenceNumber+1 .. lastSequenceNumber+N, with the type and payload of
\* the input events: the records of one call are stored together.
C7_BatchAppendedWhole ==
    [][/\ \A p \in Procs : Writes(p) => AppendsAll(p)
       /\ eventRecords' # eventRecords => \E p \in Procs : Writes(p)]_vars

\* A call has stored two records after earlier ones while a query waits.
C7_Witness ==
    \E p, q \in Procs :
        /\ pc[p] \in {"a_import", "a_notified"}
        /\ Len(local[p].eventRecords) = 2
        /\ local[p].eventRecords[1].sequenceNumber > 1
        /\ pc[q] = "q_wait"

\* C8: every step keeps the record sequence as a prefix of the new one.
C8_AppendOnly ==
    [][/\ Len(eventRecords) <= Len(eventRecords')
       /\ \A i \in 1..Len(eventRecords) : eventRecords'[i] = eventRecords[i]]_vars

\* Records of two append calls are stored, a storeToFile has written the
\* file and a handler is subscribed.
C8_Witness ==
    /\ ~writeThruFilename
    /\ Len(eventRecords) >= 2
    /\ eventRecords[2].sequenceNumber = 2
    /\ file # NoFile
    /\ subscribers # {}

\* p is inside the try block of append, holding the write permit.
InsideTry(p) ==
    /\ p \in lock.granted
    /\ pc[p] \in {"a_wait", "a_checked", "a_import", "a_writing", "a_notified"}

\* C9: a caller whose append has returned or thrown holds no permit, the
\* writer flag is set only while some append is inside its try block, and
\* with nobody inside a query or append the lock is free.
C9_WriteLockReleased ==
    /\ \A p \in Procs : pc[p] = "idle" => p \notin lock.granted
    /\ lock.writerActive => \E p \in Procs : InsideTry(p)
    /\ (\A p \in Procs : pc[p] \in {"idle", "s_import", "s_writing"}) => lock = NewLock

\* One append has thrown Conflict and another the persistence error.
C9_Witness ==
    \E p, q \in Procs :
        /\ pc[p] = "idle" /\ outcome[p] = "conflict"
        /\ pc[q] = "idle" /\ outcome[q] = "persistence"

\* C10: when the write-through write of p's append fails (p leaves the
\* await of fs.writeFile without the file written), the append throws the
\* persistence error, and the records it created stay at the end of the
\* record sequence with lastSequenceNumber past them.
C10_PersistenceFailureKeepsRecords ==
    [][\A p \in Procs :
          (pc[p] = "a_writing" /\ pc'[p] \notin {"a_writing", "a_notified"})
              => LET created == local[p].eventRecords
                     n == Len(created)
                 IN  /\ outcome'[p] = "persistence"
                     /\ Len(eventRecords') >= n
                     /\ SubSeq(eventRecords', Len(eventRecords') - n + 1,
                               Len(eventRecords')) = created
                     /\ n > 0 => lastSequenceNumber' = created[n].sequenceNumber]_vars

\* The only append so far has failed to persist and its records are stored.
C10_Witness ==
    \E p \in Procs :
        /\ pc[p] = "idle" /\ outcome[p] = "persistence"
        /\ eventRecords # <<>>
        /\ file = NoFile

\* p's append returns normally in this step.
ReturnsOk(p) == pc[p] = "a_notified" /\ pc'[p] = "idle" /\ outcome'[p] = "ok"

\* p is inside the persistence write of an append.
Persisting(p) == pc[p] \in {"a_import", "a_writing"}

\* C11: in write-through mode, when an append returns normally the
\* persisted file holds exactly the in-memory record sequence and
\* lastSequenceNumber, and the persistence writes of two appends never
\* overlap.
C11_WriteThroughPersistsLog ==
    [][/\ \A p \in Procs :
              (writeThruFilename /\ ReturnsOk(p))
                  => file' = serialize(eventRecords', lastSequenceNumber')
       /\ \A p, q \in Procs : (Persisting(p) /\ Persisting(q)) => p = q]_vars

\* The callers that hold the write permit, and those that hold a read permit.
ActiveWriters == {p \in Procs : InsideTry(p)}
ActiveReaders == {p \in Procs : pc[p] = "q_wait" /\ p \in lock.granted}

\* C12: at most one writer is active, no writer is active while a reader
\* is, and the active-reader count is never negative (it is the number of
\* queries that hold a read permit).
C12_MutualExclusion ==
    /\ Cardinality(ActiveWriters) <= 1
    /\ ActiveWriters # {} => (ActiveReaders = {} /\ lock.readers = 0)
    /\ lock.writerActive <=> ActiveWriters # {}
    /\ lock.readers >= 0
    /\ lock.readers = Cardinality(ActiveReaders)

\* An append holds the write permit while a query and nobody else waits
\* for the lock.
C12_Witness ==
    \E p, q \in Procs :
        /\ InsideTry(p)
        /\ pc[q] = "q_wait" /\ q \notin lock.granted
        /\ Len(lock.queue) = 1

\* The place of p's request in arrival order among the pending requests:
\* its index in the queue, or behind all of them when it arrives now.
Position(p) ==
    IF \E i \in 1..Len(lock.queue) : lock.queue[i].proc = p
    THEN CHOOSE i \in 1..Len(lock.queue) : lock.queue[i].proc = p
    ELSE Len(lock.queue) + 1

\* p's request is granted in this step.
GrantedNow(p) == p \notin lock.granted /\ p \in lock'.granted

\* C13: a write request is granted only when every request that arrived
\* before it has been granted and released (it is the oldest pending request
\* and nobody else holds a permit); a read request is granted only together
\* with or after the requests that arrived before it, none of them a write.
C13_GrantedInArrivalOrder ==
    [][\A p \in LockProcs :
          GrantedNow(p) =>
              LET ahead == {lock.queue[i] : i \in 1..(Position(p) - 1)}
              IN  IF pc'[p] = "a_wait"
                  THEN ahead = {} /\ lock'.granted = {p}
                  ELSE \A r \in ahead : r.kind = "read" /\ r.proc \in lock'.granted]_vars

\* Two reads hold permits, a write request waits for them and a read
\* request that arrived after the write waits behind it.
C13_Witness ==
    /\ lock.readers = 2
    /\ Len(lock.queue) = 2
    /\ lock.queue[1].kind = "write"
    /\ lock.queue[2].kind = "read"

\* C14: when every granted permit is eventually released, every read and
\* every write request is eventually granted, however many requests of the
\* other class keep arriving.
C14_EveryRequestGranted ==
    \A p \in LockProcs :
        (pc[p] \in {"q_wait", "a_wait"}) ~> (p \in lock.granted)

\* A read request waits behind an active writer with two more write
\* requests behind it.
C14_Witness ==
    /\ lock.writerActive
    /\ Len(lock.queue) = 3
    /\ lock.queue[1].kind = "read"
    /\ lock.queue[2].kind = "write"
    /\ lock.queue[3].kind = "write"

\* The steps in which a call other than append reads or changes the record
\* sequence, the sequence counter or the subscriber list: the body of
\* query, queryAll, subscribe, and the serialize of a storeToFile call.
QueryReads(p) == pc[p] = "q_wait" /\ pc'[p] = "idle"

\* A queryAll call is the one step that starts a call and changes neither
\* pc nor the subscribers; its caller is the one whose result is new, or
\* the only one that holds a queryAll result.
QueryAllReads(p) ==
    /\ pc' = pc /\ nOps' # nOps /\ subscribers' = subscribers
    /\ ctx'[p] # NoCtx
    /\ ctx'[p].via = "queryAll"
    /\ \/ ctx'[p] # ctx[p]
       \/ \A q \in Procs \ {p} : ctx'[q] = NoCtx \/ ctx'[q].via # "queryAll"

SubscribeChanges(p) ==
    /\ pc[p] = "idle" /\ pc'[p] = "idle" /\ nOps' # nOps
    /\ subscribers' # subscribers

StoreToFileReads(p) == pc[p] = "s_import" /\ pc'[p] = "s_writing"

\* C15: no query, queryAll, subscribe or storeToFile call reads or changes
\* the shared state while an append holds the write lock.
C15_SharedStateOnlyUnderLock ==
    [][\A p \in Procs :
          (QueryReads(p) \/ QueryAllReads(p) \/ SubscribeChanges(p)
                \/ StoreToFileReads(p))
              => ~lock.writerActive]_vars

\* The same for query alone.
C15_QueryOnlyUnderLock ==
    [][\A p \in Procs : QueryReads(p) => ~lock.writerActive]_vars

\* p gets the result of a query or queryAll call in this step.
Returned(p) == QueryReads(p) \/ QueryAllReads(p)

\* The records of the appends that have stored them and not yet returned.
InFlightRecords ==
    {r \in {eventRecords[i] : i \in 1..Len(eventRecords)} :
        \E q \in Procs :
            /\ pc[q] \in {"a_import", "a_writing", "a_notified"}
            /\ \E i \in 1..Len(local[q].eventRecords) : local[q].eventRecords[i] = r}

\* p holds the same result before and after this step.
SameResult(p) ==
    /\ ctx[p] # NoCtx /\ ctx'[p] # NoCtx
    /\ ctx'[p].via = ctx[p].via
    /\ ctx'[p].queryOrFilter = ctx[p].queryOrFilter
    /\ ctx'[p].maxSequenceNumber = ctx[p].maxSequenceNumber

\* The result of p meets both halves of the point-in-time view in this step.
PointInTime(p) ==
    /\ Returned(p) =>
          /\ ctx'[p].events
                = processQuery(eventRecords, toEventQuery(ctx'[p].queryOrFilter))
          /\ \A i \in 1..Len(ctx'[p].events) : ctx'[p].events[i] \notin InFlightRecords
    /\ SameResult(p) => ctx'[p].events = ctx[p].events

\* C16: a result of query or queryAll holds the matching records of the log
\* at the call, none of them of an append that has not returned yet, and the
\* events of a result a caller holds do not change in any later step.
C16_PointInTimeResults ==
    [][\A p \in Procs : PointInTime(p)]_vars

\* The same for the results of query alone.
C16_QueryResultsPointInTime ==
    [][\A p \in Procs :
          (ctx'[p] # NoCtx /\ ctx'[p].via = "query") => PointInTime(p)]_vars

\* events is the ascending subsequence of records that query selects.
MatchingSubsequence(events, records, query) ==
    /\ \A i \in 1..Len(events) :
          /\ \E k \in 1..Len(records) : records[k] = events[i]
          /\ MatchesQuery(events[i], query)
    /\ \A i, j \in 1..Len(events) :
          i < j => events[i].sequenceNumber < events[j].sequenceNumber
    /\ \A k \in 1..Len(records) :
          MatchesQuery(records[k], query)
              => \E i \in 1..Len(events) : events[i] = records[k]

\* C17: the result of every query holds exactly the matching records of the
\* log, in ascending sequence-number order, and its maxSequenceNumber is the
\* sequence number of the last of them, or 0 when there is none.
C17_QueryResultOrderedSubsequence ==
    [][\A p \in Procs :
          QueryReads(p) =>
              LET result == ctx'[p]
              IN  /\ MatchingSubsequence(result.events, eventRecords,
                                         toEventQuery(result.queryOrFilter))
                  /\ result.maxSequenceNumber
                        = IF result.events = <<>> THEN 0
                          ELSE result.events[Len(result.events)].sequenceNumber]_vars

\* A caller holds the result of a query that selected records 1 and 3 of
\* three.
C17_Witness ==
    \E p \in Procs :
        /\ ctx[p] # NoCtx
        /\ ctx[p].via = "query"
        /\ Len(eventRecords) = 3
        /\ Len(ctx[p].events) = 2
        /\ ctx[p].events[1].sequenceNumber = 1
        /\ ctx[p].events[2].sequenceNumber = 3

\* The match of a record and a filter as the claim states it, on what the
\* caller passed to createFilter: the event types and the optional list of
\* payload patterns.
FilterSelects(record, f) ==
    /\ (f.eventTypes = {} \/ record.eventType \in f.eventTypes)
    /\ \/ f.payloadPredicates = {}
       \/ \E predicates \in f.payloadPredicates :
             \/ predicates = <<>>
             \/ \E i \in 1..Len(predicates) :
                   PredicateMatches(record.payload, predicates[i])

CallSelects(record, c) ==
    \/ c.shape = "none"
    \/ \E i \in 1..Len(c.filters) : FilterSelects(record, c.filters[i])

\* C18: a record of the log is in the result of a query iff the call had no
\* argument or the record matches at least one of its filters: its type is
\* one of the filter's event types, or there are none, and the filter has no
\* or an empty list of payload patterns or one of them matches the payload.
C18_MatchSemantics ==
    \A p \in Procs :
        call[p] # NoCall =>
            \A k \in 1..Len(eventRecords) :
                (\E i \in 1..Len(ctx[p].events) : ctx[p].events[i] = eventRecords[k])
                    <=> CallSelects(eventRecords[k], call[p])

\* A query of two filters, one by type and patterns and one by patterns
\* only, has selected one of two records.
C18_Witness ==
    \E p \in Procs :
        /\ call[p] # NoCall
        /\ call[p].shape = "query"
        /\ Len(call[p].filters) = 2
        /\ call[p].filters[1].eventTypes = {"e1"}
        /\ call[p].filters[1].payloadPredicates = {<<[k |-> 1]>>}
        /\ call[p].filters[2].eventTypes = {}
        /\ call[p].filters[2].payloadPredicates = {<<[j |-> 1], [k |-> 3]>>}
        /\ Len(eventRecords) = 2
        /\ Len(ctx[p].events) = 1

\* C19: the result of queryAll has the events and the maxSequenceNumber
\* that query with no argument and query with a filter of no event types
\* and no payload patterns give on the same log.
C19_QueryAllEqualsUnconstrainedQuery ==
    [][\A p \in Procs :
          QueryAllReads(p) =>
              LET all == ctx'[p]
                  none == QueryResult(eventRecords, toEventQuery(Undefined))
                  any == QueryResult(eventRecords, toEventQuery(createFilter({}, {})))
              IN  /\ all.events = none.events
                  /\ all.maxSequenceNumber = none.maxSequenceNumber
                  /\ all.events = any.events
                  /\ all.maxSequenceNumber = any.maxSequenceNumber]_vars

\* A caller holds the result of queryAll on a log of records of both types.
C19_Witness ==
    \E p \in Procs :
        /\ ctx[p] # NoCtx
        /\ ctx[p].via = "queryAll"
        /\ ctx[p].maxSequenceNumber >= 2
        /\ Len(ctx[p].events) = ctx[p].maxSequenceNumber
        /\ \E i, j \in 1..Len(ctx[p].events) :
              ctx[p].events[i].eventType # ctx[p].events[j].eventType

\* p's append passes its call of notifier.notify in this step.
Notifies(p) == pc[p] # "a_notified" /\ pc'[p] = "a_notified"

\* The records p's append has created: the last N of the log, N the number
\* of its events (p holds the write permit).
CreatedBy(p) ==
    SubSeq(eventRecords', Len(eventRecords') - Len(call[p].events) + 1,
           Len(eventRecords'))

\* C20: when an append passes its notification, every handler subscribed
\* then is handed the batch of the records the append created, in order,
\* and no other handler is handed anything; nothing else hands a batch to a
\* handler, so each batch is delivered once; and an append returns normally
\* only after that notification.
C20_SubscribersReceiveBatchOnce ==
    [][/\ \A p \in Procs :
             Notifies(p) =>
                 \A h \in Handlers :
                     delivered'[h] = IF h \in subscribers
                                     THEN Append(delivered[h], CreatedBy(p))
                                     ELSE delivered[h]
       /\ delivered' # delivered => \E p \in Procs : Notifies(p)
       /\ \A p \in Procs :
             (pc[p] # "idle" /\ pc'[p] = "idle" /\ outcome'[p] = "ok")
                 => pc[p] = "a_notified"]_vars

\* On a write-through store an append of two events has returned normally
\* and the subscribed handler has been handed its batch.
C20_Witness ==
    /\ writeThruFilename
    /\ \E p \in Procs : pc[p] = "idle" /\ outcome[p] = "ok"
    /\ \E h \in subscribers :
          /\ Len(delivered[h]) = 1
          /\ Len(delivered[h][1]) = 2

\* All records handed to a handler, batch after batch.
RECURSIVE Flatten(_)
Flatten(batches) ==
    IF batches = <<>> THEN <<>> ELSE Head(batches) \o Flatten(Tail(batches))

\* C21: the batches a handler has received are in the order in which they
\* were appended: the sequence numbers of the records it has received,
\* batch after batch, are strictly increasing.
C21_BatchesInAppendOrder ==
    \A h \in Handlers :
        LET received == Flatten(delivered[h])
        IN  \A i, j \in 1..Len(received) :
                i < j => received[i].sequenceNumber < received[j].sequenceNumber

\* A handler has received the batches of two appends while the append of
\* another caller waits for the write permit.
C21_Witness ==
    /\ \E h \in subscribers :
          /\ Len(delivered[h]) = 2
          /\ delivered[h][1] # <<>> /\ delivered[h][2] # <<>>
    /\ \E p, q \in Procs : pc[p] = "a_notified" /\ pc[q] = "a_wait"

C23_RoundTrip ==
    \A p \in Procs :
        local[p] # NoLocal =>
            /\ ~Failed(local[p])
            /\ local[p].eventRecords = eventRecords
            /\ local[p].lastSequenceNumber = lastSequenceNumber

\* A log of two records has been stored and loaded, the second one with a
\* payload of nested arrays and objects and a time of day with milliseconds.
C23_Witness ==
    \E p \in Procs :
        /\ local[p] # NoLocal
        /\ Len(eventRecords) = 2
        /\ Len(local[p].eventRecords) = 2
        /\ local[p].eventRecords[2].timestamp = [time |-> 59123]
        /\ Len(local[p].eventRecords[2].payload.object) = 2
        /\ "array" \in DOMAIN local[p].eventRecords[2].payload.object[1].value

\* p's createFromFile call ends in this step.
CreateEnds(p) == pc[p] = "c_read" /\ pc'[p] # "c_read"

\* C24: createFromFile on a missing file returns an empty store (no
\* records, lastSequenceNumber 0) when ignoreMissingFile is true and throws
\* the error when it is false; on a file that cannot be read or whose
\* content cannot be used it throws the error whatever ignoreMissingFile
\* is; and a call that throws leaves no store behind.
C24_MissingFileTolerated ==
    [][\A p \in Procs :
          CreateEnds(p) =>
              /\ (file = NoFile /\ call[p].ignoreMissingFile)
                    => /\ outcome'[p] = "created"
                       /\ eventRecords' = <<>> /\ lastSequenceNumber' = 0
              /\ (file = NoFile /\ ~call[p].ignoreMissingFile)
                    => outcome'[p] = "ENOENT" /\ pc'[p] = "failed"
              /\ file = Unreadable => outcome'[p] = "EACCES" /\ pc'[p] = "failed"
              /\ file \in Malformed
                    => outcome'[p] \in {"SyntaxError", "TypeError"} /\ pc'[p] = "failed"
              /\ pc'[p] = "failed"
                    => UNCHANGED <<eventRecords, lastSequenceNumber, file>>]_vars

\* createFromFile with ignoreMissingFile has returned an empty store for
\* the missing file, and an append on that store has returned.
C24_Witness ==
    /\ outcome[1] = "created"
    /\ call[1].op = "createFromFile"
    /\ call[1].ignoreMissingFile
    /\ file = NoFile
    /\ outcome[2] = "ok"

\* C25: EventStream.append runs, and the record sequence and
\* lastSequenceNumber change, only in a step of an append call that holds
\* the write permit: the writer flag is set, the caller is the one
\* permit holder and no reader is active.
C25_MutationUnderWriteLock ==
    [][/\ \A p \in Procs :
             Writes(p) => /\ lock.writerActive
                          /\ lock.granted = {p}
                          /\ lock.readers = 0
                          /\ ActiveReaders = {}
       /\ store' # store => \E p \in Procs : Writes(p)]_vars

\* An append has stored two records under the write permit while the
\* append of another caller waits for it.
C25_Witness ==
    \E p, q \in Procs :
        /\ pc[p] \in {"a_import", "a_notified"}
        /\ lock.granted = {p}
        /\ Len(local[p].eventRecords) = 2
        /\ pc[q] = "a_wait"

\* The maxSequenceNumber of the context caller 1 of the retry loop starts with.
FirstContextMax == QueryResult(RetryLog, toEventQuery(RetryQuery)).maxSequenceNumber

\* The call of caller 1 of the retry loop is a retry.  The caller queries
\* again only after a Conflict, and a Conflict means the log has a newer
\* record the query selects, so its append with a maxSequenceNumber other
\* than that of its first context follows a Conflict and a new query.
Retrying(p) ==
    /\ p = 1
    /\ call[p].op \in {"append", "appended"}
    /\ call[p].hasContext
    /\ call[p].queryOrFilter = RetryQuery
    /\ call[p].expectedMaxSequenceNumber # FirstContextMax

\* C26 as stated: after an append failed with Conflict, the retry with the
\* maxSequenceNumber of a new query, no append having happened between that
\* query and the retry, appends its events and succeeds.
C26_RetrySucceeds ==
    [][\A p \in Procs :
          Retrying(p) =>
              /\ (PassesCheck(p) /\ FreshContext(call[p]))
                    => (Writes(p) /\ AppendsAll(p))
              /\ (PassedRecheck(p) /\ pc'[p] = "idle") => outcome'[p] = "ok"]_vars

\* C26 amended: the retry is not rejected with Conflict when no record the
\* query selects was appended since the new query, and appends all its
\* events; it then returns normally unless the write-through persistence
\* write fails.
C26_RetryAppends ==
    [][\A p \in Procs :
          Retrying(p) =>
              /\ (PassesCheck(p) /\ FreshContext(call[p]))
                    => (Writes(p) /\ AppendsAll(p))
              /\ (PassedRecheck(p) /\ pc'[p] = "idle")
                    => \/ outcome'[p] = "ok"
                       \/ /\ outcome'[p] = "persistence"
                          /\ writeThruFilename
                          /\ pc[p] = "a_writing"]_vars

\* Caller 1 met a Conflict, queried again and its retry returned normally,
\* its records at the end of the log.
C26_Witness ==
    /\ Retrying(1)
    /\ pc[1] = "idle" /\ outcome[1] = "ok"
    /\ Len(eventRecords) > Len(RetryLog) + Len(RetryEvents)
    /\ eventRecords[Len(eventRecords)].sequenceNumber = lastSequenceNumber

\* The batches known in a state as the records of one call each: those of
\* the appends that have stored their records and not returned yet, and
\* those handed to a handler.
KnownBatches ==
    {local[q].eventRecords :
        q \in {r \in Procs : pc[r] \in {"a_import", "a_writing", "a_notified"}}}
    \cup UNION {{delivered[h][i] : i \in 1..Len(delivered[h])} : h \in Handlers}

\* The sequence holds none or all of the records of the batch that the
\* query selects.
NoneOrAll(batch, events, query) ==
    LET selected == {i \in 1..Len(batch) : MatchesQuery(batch[i], query)}
        held == {i \in selected : \E k \in 1..Len(events) : events[k] = batch[i]}
    IN  held = {} \/ held = selected

\* C27: no observer sees a part of a batch.  The log changes only by one
\* call storing all its records in one step, so that every batch known is
\* in the log whole; the batch an append hands to the handlers is all the
\* records of the call; and every result of query or queryAll that a caller
\* holds has none or all of the records of each batch that its query
\* selects.
C27_NoPartialBatch ==
    [][/\ eventRecords' # eventRecords
             => \E p \in Procs : Writes(p) /\ AppendsAll(p)
       /\ \A p \in Procs :
             Notifies(p) =>
                 \A h \in subscribers :
                     /\ delivered'[h] = Append(delivered[h], CreatedBy(p))
                     /\ Len(CreatedBy(p)) = Len(call[p].events)
       /\ \A batch \in KnownBatches' :
             /\ NoneOrAll(batch, eventRecords', toEventQuery(Undefined))
             /\ batch # <<>> =>
                    \E k \in 1..Len(eventRecords') : eventRecords'[k] = batch[1]
             /\ \A p \in Procs :
                    ctx'[p] # NoCtx =>
                        NoneOrAll(batch, ctx'[p].events,
                                  toEventQuery(ctx'[p].queryOrFilter))]_vars

\* An append has stored two records and not returned yet; one caller holds
\* a queryAll result made before, which now has both, and a handler was
\* handed a batch of two.
C27_Witness ==
    \E p, q \in Procs :
        /\ pc[q] \in {"a_import", "a_notified"}
        /\ Len(local[q].eventRecords) = 2
        /\ ctx[p] # NoCtx /\ ctx[p].via = "queryAll"
        /\ \E k \in 1..Len(ctx[p].events) : ctx[p].events[k] = local[q].eventRecords[2]
        /\ \E h \in subscribers : \E i \in 1..Len(delivered[h]) : Len(delivered[h][i]) = 2

\* No append is between its call and its return.
NoAppendInFlight ==
    \A p \in Procs :
        pc[p] \notin {"a_wait", "a_checked", "a_import", "a_writing", "a_notified"}

\* C28: when no append is in flight, the batches handed to a handler that
\* is subscribed from the start, one after the other, are the record
\* sequence of the store.
C28_DeliveredEqualsLog ==
    NoAppendInFlight =>
        \A h \in subscribers : Flatten(delivered[h]) = eventRecords

\* The record was read from the file, not made by an append on the new
\* store: deserialize gives it a timestamp.
Loaded(record) == "timestamp" \in DOMAIN record

\* The lastSequenceNumber written in the file the store was made from.
PersistedLastSequenceNumber == Get(parse(file.text), KeyLastSequenceNumber).number

\* C29: on a store made by createFromFile the first append that stores
\* records numbers them on from the lastSequenceNumber of the file, every
\* append numbers its records above all the records in the log, and so the
\* sequence numbers of the log, loaded or new, are all different.
C29_NumberingContinues ==
    [][/\ \A p \in Procs :
             Writes(p) =>
                 LET old == Len(eventRecords)
                     new == Len(eventRecords')
                 IN  /\ \A i \in 1..old : eventRecords'[i] = eventRecords[i]
                     /\ \A i \in (old + 1)..new : \A j \in 1..old :
                            eventRecords'[i].sequenceNumber > eventRecords[j].sequenceNumber
                     /\ ( /\ new > old
                          /\ "text" \in DOMAIN file
                          /\ \A j \in 1..old : Loaded(eventRecords[j]) )
                            => eventRecords'[old + 1].sequenceNumber
                                   = PersistedLastSequenceNumber + 1
       /\ \A i, j \in 1..Len(eventRecords') :
             i < j => eventRecords'[i].sequenceNumber < eventRecords'[j].sequenceNumber]_vars

\* A store was made from a file of two records and an append on it has
\* returned: its record is the third of the log.
C29_Witness ==
    /\ Len(eventRecords) = 3
    /\ Loaded(eventRecords[1]) /\ Loaded(eventRecords[2])
    /\ ~Loaded(eventRecords[3])
    /\ eventRecords[3].sequenceNumber = 3
    /\ \E p \in Procs : pc[p] = "idle" /\ outcome[p] = "ok"

\* C30: on a write-through store with the records of an append whose
\* persistence write failed, when the next append that succeeds returns,
\* the file holds the whole log, the records of the failed call included:
\* the persisted form equals the in-memory log again.
C30_NextAppendPersistsLog ==
    [][\A p \in Procs :
          ReturnsOk(p) =>
              /\ file' # NoFile
              /\ file'.events = eventRecords'
              /\ file'.lastSequenceNumber = lastSequenceNumber'
              /\ \A i \in 1..Len(FailedLog) : file'.events[i] = FailedLog[i]]_vars

====
